---- MODULE Spec2Model ----
(***************************************************************************)
(* redis-save-manager: main/do/saveBlocking/disablePersistence of          *)
(* src/redis-save-manager.go, together with the redis instances they talk  *)
(* to (LASTSAVE marker, background save in progress, automatic save        *)
(* configuration), the context deadline and the two timers.                *)
(***************************************************************************)
EXTENDS Integers, Sequences, FiniteSets, TLC

\* ---- bounds of the model ----
MaxEndpoints == 2
MaxMarker == 1
MaxDelta == 2

\* ---- durations, in milliseconds ----
Minute == 60000
Hour == 3600000

Endpoints == 1..MaxEndpoints
Markers == 0..MaxMarker
NoVal == 0 - 1
NoAddr == 0

\* ---- error values ----
ErrNil == "nil"
ErrEmpty == "empty addresses"
ErrConnect == "ConnectError"
ErrProtocol == "ProtocolError"
DeadlineExceeded == "DeadlineExceeded"

VARIABLES
    addrs,      \* do's addrs parameter: the endpoint sequence after the shuffle
    pc,         \* position of do/main
    i,          \* index of the current range loop of do (1-based)
    sb,         \* saveBlocking activations, one per index of addrs: [pc, prev]
    err,        \* value returned by the last saveBlocking call (do, line 65)
    ret,        \* value returned by do
    exit,       \* process exit code, NoVal while running
    logged,     \* line the latest step of the program wrote to the log
    toggles,    \* endpoints disablePersistence was called with, in call order
    conns,      \* endpoints with an open connection of this process
    t,          \* ticker channel t.C of saveBlocking holds a tick
    after,      \* the select of line 76 has received from time.After
    done,       \* ctx.Done() is closed
    marker,     \* per instance: value LASTSAVE reports
    saving,     \* per instance: a background save started by BGSAVE is running
    autosave,   \* per instance: automatic save points configured
    requested,  \* value of the -deadline flag as parsed (main, line 28)
    deadline,   \* args.Deadline
    lines,      \* result of readLines (main, line 33)
    mi          \* index i of the shuffle loop of main (1-based)

vars == <<addrs, pc, i, sb, err, ret, exit, logged, toggles, conns, t, after,
          done, marker, saving, autosave, requested, deadline, lines, mi>>

startup == <<requested, deadline, lines, mi>>
prog == <<addrs, pc, i, sb, err, ret, exit, logged, toggles, conns, t, after,
          startup>>
store == <<marker, saving, autosave>>

IdleFrame == [pc |-> "idle", prev |-> NoVal]
NoLog == [addr |-> NoAddr, msg |-> "none"]

Range(s) == {s[k] : k \in 1..Len(s)}

\* endpoint sequences main can hand to do: readLines keeps every line of the
\* file and the shuffle only reorders them, so any sequence of addresses,
\* an address on several lines included
AddrLists == UNION {[1..n -> Endpoints] : n \in 0..MaxEndpoints}

Init ==
    /\ addrs \in AddrLists
    /\ pc = "start"
    /\ i = 1
    /\ sb = [k \in Endpoints |-> IdleFrame]
    /\ err = ErrNil
    /\ ret = ErrNil
    /\ exit = NoVal
    /\ logged = NoLog
    /\ toggles = <<>>
    /\ conns = {}
    /\ t = FALSE
    /\ after = FALSE
    /\ done = FALSE
    /\ marker = [e \in Endpoints |-> 0]
    /\ saving = [e \in Endpoints |-> FALSE]
    /\ autosave = [e \in Endpoints |-> TRUE]
    /\ requested = Hour
    /\ deadline = Hour
    /\ lines = addrs
    /\ mi = Len(addrs) + 1

\* ---- helpers of do ----

\* variant of EmptyAddrs: the length check is missing
EmptyAddrs_unchecked(s) == FALSE

\* line 54: len(addrs) == 0
EmptyAddrs(s) == Len(s) = 0

\* lines 70-72 and 76-78: the case <-ctx.Done() is ready
CtxDone(d) == d

\* variant of Returned: saveBlocking is started without waiting for it
\* (go saveBlocking(ctx, addr))
Returned_async(k) == TRUE

\* line 65: the call saveBlocking(ctx, addrs[k]) has returned
Returned(k) == sb[k].pc = "idle"

\* variant of Changed: only a later timestamp counts (cur > prev)
Changed_later(cur, prev) == cur > prev

\* line 108: cur != prev
Changed(cur, prev) == cur # prev

\* ---- do ----

\* lines 53-56
do_Start ==
    /\ pc = "start"
    /\ IF EmptyAddrs(addrs)
         THEN pc' = "returned" /\ ret' = ErrEmpty
         ELSE pc' = "disable" /\ ret' = ret
    /\ i' = 1
    /\ logged' = NoLog
    /\ UNCHANGED <<startup, addrs, sb, err, exit, toggles, conns, t, after, done,
                   store>>

\* variant of do_CallDisable: a failed dial ends do with the error
do_CallDisable_fatal ==
    /\ pc = "disable"
    /\ i <= Len(addrs)
    /\ toggles' = Append(toggles, addrs[i])
    /\ \E ok \in BOOLEAN :
         IF ok
           THEN /\ conns' = conns \cup {addrs[i]}
                /\ pc' = "disable_cmd"
                /\ logged' = NoLog
                /\ UNCHANGED <<i, ret>>
           ELSE /\ logged' = [addr |-> addrs[i], msg |-> ErrConnect]
                /\ pc' = "returned"
                /\ ret' = ErrConnect
                /\ UNCHANGED <<i, conns>>
    /\ UNCHANGED <<startup, addrs, sb, err, exit, t, after, done, store>>

\* lines 57-61 with 116-119: call disablePersistence(addr) and dial; a failed
\* dial is logged and the loop goes on
do_CallDisable ==
    /\ pc = "disable"
    /\ i <= Len(addrs)
    /\ toggles' = Append(toggles, addrs[i])
    /\ \E ok \in BOOLEAN :
         IF ok
           THEN /\ conns' = conns \cup {addrs[i]}
                /\ pc' = "disable_cmd"
                /\ logged' = NoLog
                /\ UNCHANGED i
           ELSE /\ logged' = [addr |-> addrs[i], msg |-> ErrConnect]
                /\ i' = i + 1
                /\ UNCHANGED <<pc, conns>>
    /\ UNCHANGED <<startup, addrs, sb, err, ret, exit, t, after, done, store>>

\* lines 120-121 with 58-60: CONFIG SET SAVE "", close, log a failure
disablePersistence_CONFIG ==
    /\ pc = "disable_cmd"
    /\ \E ok \in BOOLEAN :
         IF ok
           THEN /\ autosave' = [autosave EXCEPT ![addrs[i]] = FALSE]
                /\ logged' = NoLog
           ELSE /\ logged' = [addr |-> addrs[i], msg |-> ErrProtocol]
                /\ UNCHANGED autosave
    /\ conns' = conns \ {addrs[i]}
    /\ pc' = "disable"
    /\ i' = i + 1
    /\ UNCHANGED <<startup, addrs, sb, err, ret, exit, toggles, t, after, done,
                   marker, saving>>

\* line 57 -> 62: the range loop over addrs is exhausted
do_DisableEnd ==
    /\ pc = "disable"
    /\ i > Len(addrs)
    /\ pc' = "save"
    /\ i' = 1
    /\ logged' = NoLog
    /\ UNCHANGED <<startup, addrs, sb, err, ret, exit, toggles, conns, t, after, done,
                   store>>

\* variant of do_CallSave: an endpoint whose automatic save could not be
\* turned off is left out of the pass
do_CallSave_skip ==
    /\ pc = "save"
    /\ i <= Len(addrs)
    /\ IF autosave[addrs[i]]
         THEN /\ i' = i + 1
              /\ UNCHANGED <<pc, conns, sb, err>>
         ELSE /\ pc' = "incall"
              /\ i' = i
              /\ \E ok \in BOOLEAN :
                   IF ok
                     THEN /\ conns' = conns \cup {addrs[i]}
                          /\ sb' = [sb EXCEPT ![i] = [pc |-> "lastsave",
                                                      prev |-> NoVal]]
                          /\ err' = ErrNil
                     ELSE /\ err' = ErrConnect
                          /\ UNCHANGED <<conns, sb>>
    /\ logged' = NoLog
    /\ UNCHANGED <<startup, addrs, ret, exit, toggles, t, after, done, store>>

\* lines 63-65 with 85-89: call saveBlocking(ctx, addr) and dial
do_CallSave ==
    /\ pc = "save"
    /\ i <= Len(addrs)
    /\ pc' = "incall"
    /\ \E ok \in BOOLEAN :
         IF ok
           THEN /\ conns' = conns \cup {addrs[i]}
                /\ sb' = [sb EXCEPT ![i] = [pc |-> "lastsave", prev |-> NoVal]]
                /\ err' = ErrNil
           ELSE /\ err' = ErrConnect
                /\ UNCHANGED <<conns, sb>>
    /\ logged' = NoLog
    /\ UNCHANGED <<startup, addrs, i, ret, exit, toggles, t, after, done, store>>

\* variant of do_AfterSave: an error of saveBlocking ends do (return err)
do_AfterSave_fatal ==
    /\ pc = "incall"
    /\ sb[i].pc = "idle"
    /\ logged' = [addr |-> addrs[i],
                  msg |-> IF err # ErrNil THEN err ELSE "saved"]
    /\ err' = ErrNil
    /\ IF err # ErrNil \/ done
         THEN /\ pc' = "returned"
              /\ ret' = (IF err # ErrNil THEN err ELSE DeadlineExceeded)
              /\ i' = i
         ELSE pc' = "save" /\ ret' = ret /\ i' = i + 1
    /\ UNCHANGED <<startup, addrs, sb, exit, toggles, conns, t, after, done, store>>

\* variant of do_AfterSave: an endpoint whose saveBlocking failed is tried
\* again at once
do_AfterSave_retry ==
    /\ pc = "incall"
    /\ sb[i].pc = "idle"
    /\ logged' = [addr |-> addrs[i],
                  msg |-> IF err # ErrNil THEN err ELSE "saved"]
    /\ err' = ErrNil
    /\ IF done
         THEN pc' = "returned" /\ ret' = DeadlineExceeded /\ i' = i
         ELSE /\ pc' = "save"
              /\ ret' = ret
              /\ i' = (IF err # ErrNil THEN i ELSE i + 1)
    /\ UNCHANGED <<startup, addrs, sb, exit, toggles, conns, t, after, done,
                   store>>

\* variant of do_AfterSave: the select on ctx.Done() after each endpoint is
\* missing, the deadline is seen only between passes
do_AfterSave_nocheck ==
    /\ pc = "incall"
    /\ sb[i].pc = "idle"
    /\ logged' = [addr |-> addrs[i],
                  msg |-> IF err # ErrNil THEN err ELSE "saved"]
    /\ err' = ErrNil
    /\ pc' = "save"
    /\ i' = i + 1
    /\ UNCHANGED <<startup, addrs, sb, ret, exit, toggles, conns, t, after, done,
                   store>>

\* lines 65-75 after the call has returned: log the outcome, then the
\* non-blocking select on ctx.Done()
do_AfterSave ==
    /\ pc = "incall"
    /\ Returned(i)
    /\ logged' = [addr |-> addrs[i],
                  msg |-> IF err # ErrNil THEN err ELSE "saved"]
    /\ err' = ErrNil
    /\ IF CtxDone(done)
         THEN pc' = "returned" /\ ret' = DeadlineExceeded /\ i' = i
         ELSE pc' = "save" /\ ret' = ret /\ i' = i + 1
    /\ UNCHANGED <<startup, addrs, sb, exit, toggles, conns, t, after, done, store>>

\* line 63 -> 76: the pass is complete, time.After(10s) is started
do_PassEnd ==
    /\ pc = "save"
    /\ i > Len(addrs)
    /\ pc' = "wait"
    /\ after' = FALSE
    /\ logged' = NoLog
    /\ UNCHANGED <<startup, addrs, i, sb, err, ret, exit, toggles, conns, t, done,
                   store>>

\* variant of do_WaitDone: the case <-ctx.Done() only leaves the select
\* (break) and the outer loop goes on
do_WaitDone_break ==
    /\ pc = "wait"
    /\ ~after
    /\ done
    /\ pc' = "save"
    /\ i' = 1
    /\ after' = FALSE
    /\ logged' = NoLog
    /\ UNCHANGED <<startup, addrs, sb, err, ret, exit, toggles, conns, t, done,
                   store>>

\* lines 76-78: select takes case <-ctx.Done(), unless the timer woke it first
do_WaitDone ==
    /\ pc = "wait"
    /\ ~after
    /\ CtxDone(done)
    /\ pc' = "returned"
    /\ ret' = DeadlineExceeded
    /\ after' = FALSE
    /\ logged' = NoLog
    /\ UNCHANGED <<startup, addrs, i, sb, err, exit, toggles, conns, t, done, store>>

\* variant of do_WaitAfter: do returns nil when a pass is complete
do_WaitAfter_once ==
    /\ pc = "wait"
    /\ after
    /\ pc' = "returned"
    /\ ret' = ErrNil
    /\ after' = FALSE
    /\ logged' = NoLog
    /\ UNCHANGED <<startup, addrs, i, sb, err, exit, toggles, conns, t, done,
                   store>>

\* lines 76, 79: select takes case <-time.After(...) and the next pass starts
do_WaitAfter ==
    /\ pc = "wait"
    /\ after
    /\ pc' = "save"
    /\ i' = 1
    /\ after' = FALSE
    /\ logged' = NoLog
    /\ UNCHANGED <<startup, addrs, sb, err, ret, exit, toggles, conns, t, done, store>>

\* ---- saveBlocking ----

\* variant of saveReturn: the connection is not closed (no defer conn.Close)
saveReturn_leak(k, e) ==
    /\ sb' = [sb EXCEPT ![k] = IdleFrame]
    /\ err' = e
    /\ conns' = conns
    /\ t' = FALSE

\* a return of activation k with value e; the deferred conn.Close and t.Stop run
saveReturn(k, e) ==
    /\ sb' = [sb EXCEPT ![k] = IdleFrame]
    /\ err' = e
    /\ conns' = conns \ {addrs[k]}
    /\ t' = FALSE

\* variant of saveBlocking_LASTSAVE: the error of the first LASTSAVE is
\* ignored and prev keeps the zero value of int64
saveBlocking_LASTSAVE_ignore(k) ==
    /\ k <= Len(addrs)
    /\ sb[k].pc = "lastsave"
    /\ \E ok \in BOOLEAN :
         sb' = [sb EXCEPT ![k] = [pc |-> "bgsave",
                                  prev |-> IF ok THEN marker[addrs[k]] ELSE 0]]
    /\ logged' = NoLog
    /\ UNCHANGED <<startup, addrs, pc, i, ret, exit, toggles, after, done,
                   store, err, conns, t>>

\* lines 90-93
saveBlocking_LASTSAVE(k) ==
    /\ k <= Len(addrs)
    /\ sb[k].pc = "lastsave"
    /\ \E ok \in BOOLEAN :
         IF ok
           THEN /\ sb' = [sb EXCEPT ![k] = [pc |-> "bgsave",
                                            prev |-> marker[addrs[k]]]]
                /\ UNCHANGED <<err, conns, t>>
           ELSE saveReturn(k, ErrProtocol)
    /\ logged' = NoLog
    /\ UNCHANGED <<startup, addrs, pc, i, ret, exit, toggles, after, done, store>>

\* lines 94-98: the instance starts a background save unless one is running
\* or it cannot start one; then the ticker is created
saveBlocking_BGSAVE(k) ==
    /\ k <= Len(addrs)
    /\ sb[k].pc = "bgsave"
    /\ \E ok \in BOOLEAN :
         IF ok /\ ~saving[addrs[k]]
           THEN /\ saving' = [saving EXCEPT ![addrs[k]] = TRUE]
                /\ sb' = [sb EXCEPT ![k].pc = "poll"]
                /\ t' = FALSE
                /\ UNCHANGED <<err, conns>>
           ELSE /\ saveReturn(k, ErrProtocol)
                /\ UNCHANGED saving
    /\ logged' = NoLog
    /\ UNCHANGED <<startup, addrs, pc, i, ret, exit, toggles, after, done, marker,
                   autosave>>

\* variant of saveBlocking_Done: the select has no case <-ctx.Done()
saveBlocking_Done_missing(k) ==
    /\ FALSE
    /\ UNCHANGED vars

\* lines 100-102: select takes case <-ctx.Done()
saveBlocking_Done(k) ==
    /\ k <= Len(addrs)
    /\ sb[k].pc = "poll"
    /\ CtxDone(done)
    /\ saveReturn(k, DeadlineExceeded)
    /\ logged' = NoLog
    /\ UNCHANGED <<startup, addrs, pc, i, ret, exit, toggles, after, done, store>>

\* lines 103-110: select takes case <-t.C and LASTSAVE is read again
saveBlocking_Tick(k) ==
    /\ k <= Len(addrs)
    /\ sb[k].pc = "poll"
    /\ t
    /\ \E ok \in BOOLEAN :
         IF ~ok
           THEN saveReturn(k, ErrProtocol)
           ELSE IF Changed(marker[addrs[k]], sb[k].prev)
                  THEN saveReturn(k, ErrNil)
                  ELSE t' = FALSE /\ UNCHANGED <<sb, err, conns>>
    /\ logged' = NoLog
    /\ UNCHANGED <<startup, addrs, pc, i, ret, exit, toggles, after, done, store>>

\* ---- main ----

\* values the -deadline flag can have: around zero, around the floor, and the
\* default
RequestedDurations ==
    ((0 - MaxDelta)..MaxDelta) \cup ((Minute - MaxDelta)..(Minute + MaxDelta))
        \cup {Hour}

\* files readLines can return: any lines naming instances, repeats included
LineLists == UNION {[1..n -> Endpoints] : n \in 0..MaxEndpoints}

\* main before line 29: flags parsed, nothing read yet
StartupInit ==
    /\ requested \in RequestedDurations
    /\ deadline = requested
    /\ lines \in LineLists
    /\ addrs = <<>>
    /\ mi = 1
    /\ pc = "main"
    /\ i = 1
    /\ sb = [k \in Endpoints |-> IdleFrame]
    /\ err = ErrNil
    /\ ret = ErrNil
    /\ exit = NoVal
    /\ logged = NoLog
    /\ toggles = <<>>
    /\ conns = {}
    /\ t = FALSE
    /\ after = FALSE
    /\ done = FALSE
    /\ marker = [e \in Endpoints |-> 0]
    /\ saving = [e \in Endpoints |-> FALSE]
    /\ autosave = [e \in Endpoints |-> TRUE]

\* variant of Floor: only a deadline that is not positive is replaced
Floor_positive(d) == IF d <= 0 THEN Minute ELSE d

\* lines 29-31: if args.Deadline < time.Minute { args.Deadline = time.Minute }
Floor(d) == IF d < Minute THEN Minute ELSE d

\* variant of Swap: the element at a is overwritten, not exchanged
Swap_overwrite(s, a, b) == [s EXCEPT ![a] = s[b]]

\* line 40: addrs[i], addrs[j] = addrs[j], addrs[i]
Swap(s, a, b) == [s EXCEPT ![a] = s[b], ![b] = s[a]]

\* lines 29-31
main_Floor ==
    /\ pc = "main"
    /\ deadline' = Floor(deadline)
    /\ pc' = "readlines"
    /\ UNCHANGED <<requested, lines, mi, addrs, i, sb, err, ret, exit, logged,
                   toggles, conns, t, after, done, store>>

\* lines 33-37: readLines, fatal when the file cannot be read
main_ReadLines ==
    /\ pc = "readlines"
    /\ \E ok \in BOOLEAN :
         IF ok
           THEN /\ addrs' = lines
                /\ pc' = "shuffle"
                /\ UNCHANGED <<exit, logged>>
           ELSE /\ pc' = "exited"
                /\ exit' = 1
                /\ logged' = [addr |-> NoAddr, msg |-> "read error"]
                /\ UNCHANGED addrs
    /\ mi' = 1
    /\ UNCHANGED <<requested, deadline, lines, i, sb, err, ret, toggles, conns,
                   t, after, done, store>>

\* lines 38-41: one round of the shuffle, j := rand.Intn(i + 1)
main_Shuffle ==
    /\ pc = "shuffle"
    /\ mi <= Len(addrs)
    /\ \E j \in 1..mi : addrs' = Swap(addrs, mi, j)
    /\ mi' = mi + 1
    /\ UNCHANGED <<requested, deadline, lines, pc, i, sb, err, ret, exit,
                   logged, toggles, conns, t, after, done, store>>

\* lines 42-44: the context is created with args.Deadline and do is called
main_CallDo ==
    /\ pc = "shuffle"
    /\ mi > Len(addrs)
    /\ pc' = "start"
    /\ UNCHANGED <<startup, addrs, i, sb, err, ret, exit, logged, toggles,
                   conns, t, after, done, store>>

\* lines 43-51: with a nil error main returns; deadline reached is logged and
\* main returns; any other error is fatal. A return of main runs the deferred
\* cancel() of line 43, which closes ctx.Done(); log.Fatal exits the process
\* without running it.
main_Exit ==
    /\ pc = "returned"
    /\ pc' = "exited"
    /\ IF ret = ErrNil
         THEN exit' = 0 /\ logged' = NoLog /\ done' = TRUE
         ELSE IF ret = DeadlineExceeded
                THEN /\ exit' = 0
                     /\ logged' = [addr |-> NoAddr, msg |-> "deadline reached"]
                     /\ done' = TRUE
                ELSE /\ exit' = 1
                     /\ logged' = [addr |-> NoAddr, msg |-> ret]
                     /\ done' = done
    /\ UNCHANGED <<startup, addrs, i, sb, err, ret, toggles, conns, t, after,
                   store>>

\* ---- environment: time ----

\* line 42: the deadline of context.WithTimeout passes
Deadline ==
    /\ ~done
    /\ pc # "exited"
    /\ done' = TRUE
    /\ UNCHANGED <<prog, store>>

\* line 97: the ticker delivers a tick into t.C (buffer of one)
TickerFires ==
    /\ \E k \in 1..Len(addrs) : sb[k].pc = "poll"
    /\ ~t
    /\ t' = TRUE
    /\ UNCHANGED <<startup, addrs, pc, i, sb, err, ret, exit, logged, toggles, conns,
                   after, done, store>>

\* line 79: the timer of time.After expires and wakes the select of line 76.
\* A blocked select is woken by the first of its cases that becomes ready,
\* and the timer is created when the select is entered, so it wakes the
\* select only while ctx is not done.
AfterFires ==
    /\ pc = "wait"
    /\ ~after
    /\ ~done
    /\ after' = TRUE
    /\ UNCHANGED <<startup, addrs, pc, i, sb, err, ret, exit, logged, toggles, conns,
                   t, done, store>>

\* ---- environment: the redis instances ----

\* the background save started by BGSAVE completes: LASTSAVE changes
SnapshotCompletes(e) ==
    /\ e \in Range(addrs)
    /\ pc # "exited"
    /\ saving[e]
    /\ saving' = [saving EXCEPT ![e] = FALSE]
    /\ \E m \in Markers \ {marker[e]} : marker' = [marker EXCEPT ![e] = m]
    /\ UNCHANGED <<prog, done, autosave>>

\* an instance with save points configured saves by itself: LASTSAVE changes.
\* The program sees such a save only through LASTSAVE and through a rejected
\* BGSAVE, which saveBlocking_BGSAVE allows at any time, so its start and its
\* completion are one step.
AutoSave(e) ==
    /\ e \in Range(addrs)
    /\ pc # "exited"
    /\ autosave[e]
    /\ ~saving[e]
    /\ \E m \in Markers \ {marker[e]} : marker' = [marker EXCEPT ![e] = m]
    /\ UNCHANGED <<prog, done, saving, autosave>>

ProgStep ==
    \/ do_Start
    \/ do_CallDisable
    \/ disablePersistence_CONFIG
    \/ do_DisableEnd
    \/ do_CallSave
    \/ do_AfterSave
    \/ do_PassEnd
    \/ do_WaitDone
    \/ do_WaitAfter
    \/ \E k \in Endpoints : saveBlocking_LASTSAVE(k)
    \/ \E k \in Endpoints : saveBlocking_BGSAVE(k)
    \/ \E k \in Endpoints : saveBlocking_Done(k)
    \/ \E k \in Endpoints : saveBlocking_Tick(k)
    \/ main_Exit

EnvStep ==
    \/ Deadline
    \/ TickerFires
    \/ AfterFires
    \/ \E e \in Endpoints : SnapshotCompletes(e)
    \/ \E e \in Endpoints : AutoSave(e)

Next == ProgStep \/ EnvStep

Spec == Init /\ [][Next]_vars

\* main up to the call of do
StartupNext ==
    \/ main_Floor
    \/ main_ReadLines
    \/ main_Shuffle
    \/ main_CallDo

StartupSpec == StartupInit /\ [][StartupNext]_vars

\* Scheduling: the goroutine of main keeps running while it has a step to
\* take, and a select with a ready ctx.Done() case cannot pass that case over
\* forever (the runtime picks among ready cases uniformly at random).
Fairness ==
    /\ WF_vars(ProgStep)
    /\ \A k \in Endpoints : WF_vars(saveBlocking_Done(k))

LiveSpec == Init /\ [][Next]_vars /\ Fairness

\* ---------------------------------------------------------------------
\* Properties
\* ---------------------------------------------------------------------

Active == {k \in 1..Len(addrs) : sb[k].pc # "idle"}

PerEndpointErrors == {ErrConnect, ErrProtocol}

\* C1: at most one saveBlocking activation exists at any time, so BGSAVE is
\* never sent to one endpoint while the saveBlocking call for another
\* endpoint has not returned.
C1_OneSaveWaiter == Cardinality(Active) <= 1

\* the call for the second endpoint is polling after the first has returned
C1_Witness ==
    /\ Len(addrs) >= 2
    /\ i = 2
    /\ sb[2].pc = "poll"
    /\ sb[1].pc = "idle"

\* C2: at most one instance of the fleet runs a background save that was
\* started by an accepted BGSAVE.
C2_OneSnapshot == Cardinality({e \in Endpoints : saving[e]}) <= 1

\* C3: saveBlocking returns nil only from a poll whose LASTSAVE value differs
\* from prev, and a poll that leaves it polling read a value equal to prev.
C3_SuccessIffChanged ==
    [][\A k \in 1..Len(addrs) :
         sb[k].pc = "poll" =>
           /\ (sb'[k].pc = "idle" /\ err' = ErrNil)
                => (t /\ marker[addrs[k]] # sb[k].prev)
           /\ (t /\ ~t' /\ sb'[k].pc = "poll")
                => marker[addrs[k]] = sb[k].prev]_vars

\* saveBlocking has returned nil to do, for an instance whose marker now has
\* the lowest value
C3_Witness ==
    /\ pc = "incall"
    /\ sb[i].pc = "idle"
    /\ err = ErrNil
    /\ marker[addrs[i]] = 0

IsPrefix(p, s) == Len(p) <= Len(s) /\ p = SubSeq(s, 1, Len(p))

\* C4: disablePersistence is called once per endpoint in the order of addrs,
\* whichever calls fail, and do leaves the first loop (to call saveBlocking or
\* to return) only when every endpoint has been called.
C4_DisablingComplete ==
    /\ IsPrefix(toggles, addrs)
    /\ (Len(addrs) > 0 /\ pc \notin {"start", "disable", "disable_cmd"})
         => toggles = addrs
    /\ Active # {} => toggles = addrs

\* saveBlocking is running although some CONFIG SET failed and some succeeded
C4_Witness ==
    /\ pc = "incall"
    /\ toggles = addrs
    /\ \E a, b \in Range(addrs) : autosave[a] /\ ~autosave[b]

\* C5: while ctx is not done, an error returned by saveBlocking is logged
\* with its endpoint and do goes on to the next endpoint, or to the wait
\* between passes after the last one.
C5_ErrorAbsorbed ==
    [][/\ (pc = "incall" /\ sb[i].pc = "idle" /\ err \in PerEndpointErrors
            /\ ~done /\ pc' # pc)
          => /\ logged' = [addr |-> addrs[i], msg |-> err]
             /\ pc' = "save"
             /\ i' = i + 1
       /\ (pc = "save" /\ pc' # pc)
          => IF i <= Len(addrs) THEN pc' = "incall" /\ i' = i
                                ELSE pc' = "wait"]_vars

\* the error of the last endpoint of a pass has just been logged and the run
\* goes on
C5_Witness ==
    /\ pc = "save"
    /\ i > Len(addrs)
    /\ logged.msg \in PerEndpointErrors
    /\ ~done

\* C6: when ctx is done after saveBlocking returned, do returns the context's
\* error, and that error is not written to the log as the endpoint's error.
C6_CancelNotLogged ==
    [][(pc = "incall" /\ sb[i].pc = "idle" /\ done /\ pc' # pc)
         => /\ pc' = "returned"
            /\ ret' = DeadlineExceeded
            /\ logged'.msg # DeadlineExceeded]_vars

\* C7: if ctx is done when saveBlocking has returned, do returns at once, and
\* after do has returned no saveBlocking is called.
C7_AbortAtOnce ==
    [][/\ (pc = "incall" /\ sb[i].pc = "idle" /\ done /\ pc' # pc)
          => (pc' = "returned" /\ ret' = DeadlineExceeded)
       /\ (pc \in {"returned", "exited"})
          => (sb' = sb /\ conns' = conns /\ pc' \in {"returned", "exited"})
      ]_vars

\* do has returned with the deadline before the last endpoint of the pass
C7_Witness ==
    /\ pc = "returned"
    /\ ret = DeadlineExceeded
    /\ i < Len(addrs)

\* C8: once ctx is done, a run with endpoints ends with the deadline result
\* (under Fairness).
C8_Terminates == (done /\ Len(addrs) > 0) ~> (pc = "exited" /\ exit = 0)

\* the deadline has passed and the run has ended with the deadline result
C8_Witness ==
    /\ pc = "exited"
    /\ exit = 0
    /\ done
    /\ ret = DeadlineExceeded

\* C9: once ctx is done, the next step of a polling saveBlocking is to return
\* the context's error; it does not read LASTSAVE again.
C9_NoPollAfterDone ==
    [][\A k \in 1..Len(addrs) :
         (sb[k].pc = "poll" /\ done /\ (sb'[k] # sb[k] \/ (t /\ ~t')))
           => (sb'[k].pc = "idle" /\ err' = DeadlineExceeded)]_vars

\* C10: with an empty addrs do returns the setup error at once: no
\* disablePersistence, no saveBlocking, no connection, no loop; main exits
\* with a failure.
C10_EmptyIsSetupError ==
    Len(addrs) = 0 =>
        /\ pc \in {"start", "returned", "exited"}
        /\ toggles = <<>>
        /\ conns = {}
        /\ Active = {}
        /\ pc # "start" => ret = ErrEmpty
        /\ pc = "exited" => exit = 1

\* the run with no endpoints has exited with the setup error
C10_Witness ==
    /\ Len(addrs) = 0
    /\ pc = "exited"
    /\ exit = 1
    /\ ret = ErrEmpty

\* C11: an endpoint whose CONFIG SET failed (its save points are still
\* configured when the passes run) is called by saveBlocking in every pass
\* that reaches it, and that call sends BGSAVE unless the dial or the first
\* LASTSAVE failed, which it reports as an error.
C11_ToggleFailureStillSaved ==
    [][\A k \in 1..Len(addrs) :
         autosave[addrs[k]] =>
           /\ (pc = "save" /\ i = k /\ <<pc, i>>' # <<pc, i>>)
                => /\ pc' = "incall"
                   /\ i' = k
                   /\ (sb'[k].pc = "lastsave" \/ err' = ErrConnect)
           /\ (sb[k].pc = "lastsave" /\ sb'[k] # sb[k])
                => (sb'[k].pc = "bgsave" \/ err' = ErrProtocol)
           /\ (sb[k].pc = "bgsave" /\ sb'[k] # sb[k])
                => \/ sb'[k].pc = "poll" /\ saving'[addrs[k]]
                   \/ sb'[k].pc = "idle" /\ err' = ErrProtocol]_vars

\* the instance accepted BGSAVE although its CONFIG SET had failed
C11_Witness ==
    \E k \in 1..Len(addrs) :
        /\ sb[k].pc = "poll"
        /\ autosave[addrs[k]]
        /\ saving[addrs[k]]
        /\ toggles = addrs

\* C12: do returns only the setup error of an empty addrs or, with ctx done,
\* the context's error, never nil; and while ctx is not done the only step
\* out of the wait after a pass starts the next pass at the first endpoint.
C12_RunsUntilDeadline ==
    [][/\ pc' \in {"returned", "exited"}
          => \/ ret' = ErrEmpty /\ Len(addrs) = 0
             \/ ret' = DeadlineExceeded /\ done' /\ Len(addrs) > 0
       /\ (pc = "wait" /\ ~done /\ pc' # pc)
          => (pc' = "save" /\ i' = 1)]_vars

\* a further pass starts, ctx not done, while a save of an earlier pass runs
C12_Witness ==
    /\ pc = "save"
    /\ i = 1
    /\ ~done
    /\ \E e \in Range(addrs) : saving[e]

\* C15: a pass starts from the wait only when the pass before it is complete
\* and the timer has expired with ctx not done until then; when ctx becomes
\* done during the wait, do returns the context's error and calls no
\* saveBlocking.
C15_InterPassWait ==
    [][/\ (pc = "wait" /\ pc' # pc /\ pc' # "returned")
          => (after /\ i > Len(addrs) /\ Active = {}
              /\ pc' = "save" /\ i' = 1)
       /\ (pc = "wait" /\ ~after /\ after') => ~done
       /\ (pc = "wait" /\ ~after /\ done /\ pc' # pc)
          => (pc' = "returned" /\ ret' = DeadlineExceeded /\ sb' = sb)
       /\ (pc' = "wait" /\ pc # "wait") => (pc = "save" /\ i > Len(addrs))
      ]_vars

\* ctx became done during the wait and do has returned from there
C15_Witness ==
    /\ pc = "returned"
    /\ ret = DeadlineExceeded
    /\ i > Len(addrs)
    /\ Len(addrs) > 0

\* C13: the deadline main goes on with is the larger of the requested
\* duration and one minute.
C13_DeadlineFloor ==
    pc # "main" =>
        /\ deadline >= requested
        /\ deadline >= Minute
        /\ deadline \in {requested, Minute}

\* a request of zero has become one minute
C13_Witness ==
    /\ pc = "start"
    /\ requested = 0
    /\ deadline = Minute

Count(s, e) == Cardinality({k \in 1..Len(s) : s[k] = e})

\* C14: during and after the shuffle addrs holds the lines read, each as
\* often as it was read; a list of at most one line is unchanged.
C14_ShufflePermutes ==
    pc \in {"shuffle", "start"} =>
        /\ Len(addrs) = Len(lines)
        /\ \A e \in Endpoints : Count(addrs, e) = Count(lines, e)
        /\ Len(lines) <= 1 => addrs = lines

\* the shuffle is over and has changed the order of the lines
C14_Witness ==
    /\ pc = "start"
    /\ addrs # lines
    /\ Len(lines) >= 2

\* C16: addrs never changes; in a pass saveBlocking is called for the element
\* at the loop index only, the index goes up by one after every call whatever
\* its outcome, and it returns to the first element only when a pass starts.
C16_FixedOrderOncePerPass ==
    [][/\ addrs' = addrs
       /\ (pc = "save" /\ pc' = "incall")
          => /\ i <= Len(addrs)
             /\ i' = i
             /\ (sb'[i].pc = "lastsave" \/ err' = ErrConnect)
             /\ \A k \in Endpoints \ {i} : sb'[k] = sb[k]
       /\ \A k \in 1..Len(addrs) :
             (sb[k].pc = "idle" /\ sb'[k].pc # "idle") => (pc = "save" /\ i = k)
       /\ (pc = "incall" /\ pc' = "save") => i' = i + 1
       /\ (pc = "save" /\ pc' = "save") => i' = i
       /\ (pc' = "save" /\ pc \notin {"save", "incall"})
          => (i' = 1 /\ pc \in {"disable", "wait"})]_vars

\* in a later pass over a descending addrs the last endpoint is called again
\* while the save an earlier pass started on it still runs
C16_Witness ==
    /\ Len(addrs) >= 2
    /\ addrs[1] > addrs[2]
    /\ pc = "incall"
    /\ i = Len(addrs)
    /\ sb[i].pc = "lastsave"
    /\ saving[addrs[i]]

\* C17: the open connections are exactly that of the running saveBlocking or
\* disablePersistence call, so at most one is open, and none once do has
\* returned.
C17_ConnectionsClosed ==
    /\ Cardinality(conns) <= 1
    /\ conns = {addrs[k] : k \in Active}
                  \cup (IF pc = "disable_cmd" THEN {addrs[i]} ELSE {})
    /\ pc \in {"returned", "exited"} => conns = {}

\* do has returned after a cancelled saveBlocking and no connection is open
C17_Witness ==
    /\ pc = "returned"
    /\ i \in 1..Len(addrs)
    /\ logged = [addr |-> addrs[i], msg |-> DeadlineExceeded]
    /\ conns = {}

\* C18: a saveBlocking call reads prev only on an open connection, sends
\* BGSAVE only after prev was read, polls only after the instance accepted
\* BGSAVE, and a failed step returns its error without a later step.
C18_StepsInOrder ==
    [][\A k \in 1..Len(addrs) :
         /\ (sb'[k].pc = "lastsave" /\ sb[k].pc # "lastsave")
              => (sb[k].pc = "idle" /\ addrs[k] \in conns')
         /\ (sb'[k].pc = "bgsave" /\ sb[k].pc # "bgsave")
              => /\ sb[k].pc = "lastsave"
                 /\ sb'[k].prev = marker[addrs[k]]
                 /\ addrs[k] \in conns
         /\ (sb'[k].pc = "poll" /\ sb[k].pc # "poll")
              => /\ sb[k].pc = "bgsave"
                 /\ sb[k].prev \in Markers
                 /\ ~saving[addrs[k]]
                 /\ saving'[addrs[k]]
         /\ (saving'[addrs[k]] /\ ~saving[addrs[k]])
              => \E n \in 1..Len(addrs) :
                    /\ addrs[n] = addrs[k]
                    /\ sb[n].pc = "bgsave"
                    /\ sb'[n].pc = "poll"
         /\ (sb[k].pc \in {"lastsave", "bgsave"} /\ sb'[k].pc = "idle")
              => /\ err' = ErrProtocol
                 /\ saving' = saving
                 /\ addrs[k] \notin conns'
         /\ (pc = "save" /\ pc' = "incall" /\ i = k /\ sb'[k].pc = "idle")
              => (err' = ErrConnect /\ conns' = conns /\ saving' = saving)
      ]_vars

\* a call is polling for a save that the instance accepted after prev = 1
\* was read
C18_Witness ==
    \E k \in 1..Len(addrs) :
        /\ sb[k].pc = "poll"
        /\ sb[k].prev = 1
        /\ saving[addrs[k]]
        /\ addrs[k] \in conns

\* C19: once ctx is done the program sends no CONFIG SET, reads no prev and
\* sends no BGSAVE.
C19_NoCommandAfterDone ==
    [][done =>
         /\ toggles' = toggles
         /\ autosave' = autosave
         /\ \A k \in 1..Len(addrs) :
               /\ ~(sb[k].pc = "lastsave" /\ sb'[k].pc = "bgsave")
               /\ ~(sb[k].pc = "bgsave" /\ sb'[k].pc = "poll")]_vars

\* C20: when saveBlocking returns nil, the save its BGSAVE started on the
\* instance is no longer running.
C20_SuccessMeansOwnSaveDone ==
    [][\A k \in 1..Len(addrs) :
         (sb[k].pc = "poll" /\ sb'[k].pc = "idle" /\ err' = ErrNil)
           => ~saving[addrs[k]]]_vars

====
